---- MODULE Spec2Model ----
(***************************************************************************)
(* Model of the ESP32-C2 MQTT smart switch (MQTT_LINGDONGKAIGUAN.ino).     *)
(*                                                                         *)
(* C strings are sequences of character codes, so that atoi, strcmp and    *)
(* snprintf are computed on characters.  The two Preferences namespaces    *)
(* are partial functions from key to string.  setup() is split at its      *)
(* function calls and blocking points (pc), loop() at its three calls.     *)
(* `out` holds the side effects of the latest step, in program order.      *)
(***************************************************************************)
EXTENDS Integers, Sequences, FiniteSets, TLC

VARIABLES
  iot_config,        \* Preferences namespace "iot_config" (flash)
  system_flags,      \* Preferences namespace "system_flags" (flash)
  wifi_saved,        \* WiFiManager: a network association is stored (flash)
  cfg,               \* mqtt_server .. power_pin, the global char buffers
  firstMessageSent,
  shouldSaveConfig,
  buttonPressTime,
  longPressActive,
  connected,         \* client.connected()
  subscribed,        \* topics the session is subscribed to
  clientPort,        \* port handed to client.setServer
  gpio,              \* last level written to each pin ("Z": none since reset)
  button,            \* level of the physical button input ("LOW" = held)
  now,               \* millis()
  pc,                \* position of the sketch
  out,               \* side effects of the latest step, in order
  bootMismatch,      \* history: this boot's version check found a mismatch
  heldFor,           \* history: ms the button has been held without release
  resetsThisPress    \* history: local resets since the button last went down

vars == <<iot_config, system_flags, wifi_saved, cfg, firstMessageSent,
          shouldSaveConfig, buttonPressTime, longPressActive, connected,
          subscribed, clientPort, gpio, button, now, pc, out, bootMismatch,
          heldFor, resetsThisPress>>

----------------------------------------------------------------------------
(* Bounds of the model.  millis() is read only by checkResetButton, and how  *)
(* long setup() runs is decided by WiFi association and the portal: the     *)
(* clock stands at LoopEntryMillis during setup() and advances with the     *)
(* delays of loop().  All clock values stay far below 2^32, so the unsigned *)
(* subtraction of checkResetButton is the integer one.                      *)

MaxHoldTime == 5700      \* no delay of loop() starts once millis() has reached this
MaxCfgTime == 600        \* the same, in the configuration-rich specification
MaxNoServerTime == 6600  \* the same, where three failed handshakes are awaited
MaxLiveTime == 6800      \* the same, in the specification with fairness
BrokerUpFrom == 600      \* there, the broker answers from this time on
BrokerNeverUp == 100000  \* elsewhere, a handshake may fail at any time
MaxPressTime == 700      \* the button goes down no later than this
MaxOutcomes == 4         \* handshake outcomes supplied to one connectMQTT call
MaxResets == 2           \* resetsThisPress stops counting here
LoopEntryMillis == 500   \* millis() when loop() first runs

----------------------------------------------------------------------------
(* String literals of the sketch, as character codes *)

EMPTY == << >>
FIRMWARE_VERSION == <<49, 46, 48, 46, 48>>                  \* "1.0.0"
OLD_VERSION == <<48, 46, 57, 46, 48>>                       \* "0.9.0"
S_1883 == <<49, 56, 56, 51>>                                \* "1883"
S_8883 == <<56, 56, 56, 51>>                                \* "8883"
S_esp32 == <<101, 115, 112, 51, 50>>                        \* "esp32"
S_esp32c2 == <<101, 115, 112, 51, 50, 99, 50>>              \* "esp32c2"
S_switch1 == <<115, 119, 105, 116, 99, 104, 49>>            \* "switch1"
S_srv == <<115, 114, 118>>                                  \* "srv"
S_9 == <<57>>
S_8 == <<56>>
S_7 == <<55>>
S_5 == <<53>>
S_3 == <<51>>
S_control == <<47, 99, 111, 110, 116, 114, 111, 108>>       \* "/control"
S_on == <<111, 110>>                                        \* "on"
S_off == <<111, 102, 102>>                                  \* "off"
S_clear_all_data ==
  <<99, 108, 101, 97, 114, 95, 97, 108, 108, 95, 100, 97, 116, 97>>
S_system_startup ==
  <<115, 121, 115, 116, 101, 109, 95, 115, 116, 97, 114, 116, 117, 112>>
S_reconnected == <<114, 101, 99, 111, 110, 110, 101, 99, 116, 101, 100>>
JsonHead == <<123, 34, 115, 116, 97, 116, 117, 115, 34, 58, 34>> \* {"status":"
JsonTail == <<34, 125>>                                          \* "}

DEFAULT_BUTTON_PIN == 9
DEFAULT_LED_PIN == 8
DEFAULT_POWER_PIN == 7
RESET_HOLD_TIME == 5000
LOOP_DELAY == 100
RETRY_DELAY == 2000
BLINK_DELAY == 100
MAX_RETRY_mut == 3 + 1     \* faulty variant: one handshake too many
MAX_RETRY == 3
MESSAGE_SIZE == 50

Pins == 0 .. 9
Keys == {"server", "port", "user", "password", "topic",
         "button_pin", "led_pin", "power_pin"}
VERSION_KEY == "fw_version"

----------------------------------------------------------------------------
(* C library functions *)

Min(a, b) == IF a < b THEN a ELSE b

IsDigit(c) == c >= 48 /\ c <= 57

RECURSIVE AtoiFrom(_, _, _)
AtoiFrom(s, i, acc) ==
  IF i <= Len(s) /\ IsDigit(s[i])
    THEN AtoiFrom(s, i + 1, acc * 10 + (s[i] - 48))
    ELSE acc

\* atoi on the strings the sketch holds (no sign, no leading blanks)
Atoi(s) == AtoiFrom(s, 1, 0)

\* the C string a char buffer holds: the bytes before the first NUL
CStr(bytes) ==
  LET nul == {i \in 1 .. Len(bytes) : bytes[i] = 0}
  IN  IF nul = {} THEN bytes
      ELSE SubSeq(bytes, 1, (CHOOSE i \in nul : \A j \in nul : i <= j) - 1)

Strcmp0(a, b) == CStr(a) = CStr(b)      \* strcmp(a, b) == 0

\* snprintf(buf, n, ...): at most n - 1 characters are kept
Snprintf(n, s) == SubSeq(s, 1, Min(Len(s), n - 1))

----------------------------------------------------------------------------
(* Preferences *)

EmptyNs == [k \in {} |-> EMPTY]

GetString(ns, key, def) == IF key \in DOMAIN ns THEN ns[key] ELSE def

PutString(ns, key, val) ==
  [k \in (DOMAIN ns) \cup {key} |-> IF k = key THEN val ELSE ns[k]]

\* faulty variant: the namespace keeps its keys
ClearKept(ns) == ns
\* preferences.clear()
Clear(ns) == EmptyNs

----------------------------------------------------------------------------
(* Side effects *)

\* op: the call; k: a level, key, namespace or result; a, b: its strings and
\* numbers, as sequences
Ev(op, k, a, b) == [op |-> op, k |-> k, a |-> a, b |-> b]
PinEv(pin, level) == Ev("pin", level, <<pin>>, EMPTY)       \* digitalWrite
PubEv(topic, msg) == Ev("pub", "", topic, msg)              \* client.publish
SubEv(topic) == Ev("sub", "", topic, EMPTY)                 \* client.subscribe
ConnEv(ok) == Ev("connect", IF ok THEN "ok" ELSE "failed", EMPTY, EMPTY)
ClearEv(ns) == Ev("clear", ns, EMPTY, EMPTY)                \* preferences.clear
PutEv(key, val) == Ev("put", key, val, EMPTY)               \* putString
WifiResetEv == Ev("wifi_reset", "", EMPTY, EMPTY)           \* resetSettings
RestartEv == Ev("restart", "", EMPTY, EMPTY)                \* ESP.restart
SleepEv == Ev("sleep", "", EMPTY, EMPTY)                    \* esp_deep_sleep_start
MsgEv(payload) == Ev("msg", "", payload, EMPTY)             \* callback entered
ResetEv(held) == Ev("reset", "", <<held>>, EMPTY)           \* resetConfig entered

RECURSIVE ApplyPins(_, _)
\* the pin levels after the digitalWrite calls among evs
ApplyPins(g, evs) ==
  IF evs = << >> THEN g
  ELSE LET e == Head(evs)
       IN  ApplyPins(IF e.op = "pin" THEN [g EXCEPT ![e.a[1]] = e.k] ELSE g,
                     Tail(evs))

\* digitalRead: the button input is wired to GPIO 9; any other pin reads
\* back what was written to it (a pulled-up input reads HIGH)
DigitalRead(pin) ==
  IF pin = DEFAULT_BUTTON_PIN THEN button
  ELSE IF gpio[pin] = "LOW" THEN "LOW" ELSE "HIGH"

RECURSIVE Blink(_, _)
\* n times: pin HIGH, delay, pin LOW, delay
Blink(pin, n) ==
  IF n = 0 THEN << >>
  ELSE <<PinEv(pin, "HIGH"), PinEv(pin, "LOW")>> \o Blink(pin, n - 1)

RECURSIVE Toggle(_, _, _)
\* n times: write the inverse of the level read back
Toggle(pin, level, n) ==
  IF n = 0 THEN << >>
  ELSE LET inv == IF level = "HIGH" THEN "LOW" ELSE "HIGH"
       IN  <<PinEv(pin, inv)>> \o Toggle(pin, inv, n - 1)

----------------------------------------------------------------------------
(* Device configuration *)

DefaultCfg ==
  [mqtt_server |-> EMPTY, mqtt_port |-> S_1883, mqtt_user |-> EMPTY,
   mqtt_password |-> EMPTY, mqtt_topic |-> S_esp32,
   button_pin |-> S_9, led_pin |-> S_8, power_pin |-> S_7]

\* what the operator may submit in the portal
PortalValues ==
  [mqtt_server : {EMPTY, S_srv}, mqtt_port : {S_1883, S_8883},
   mqtt_user : {EMPTY}, mqtt_password : {EMPTY},
   mqtt_topic : {S_esp32, S_switch1},
   button_pin : {S_9}, led_pin : {S_8, S_3}, power_pin : {S_7, S_5}]

PortalValuesFew ==
  [mqtt_server : {S_srv}, mqtt_port : {S_1883},
   mqtt_user : {EMPTY}, mqtt_password : {EMPTY},
   mqtt_topic : {S_switch1},
   button_pin : {S_9}, led_pin : {S_8}, power_pin : {S_5}]

\* a topic and pins submitted with or without a server address
PortalValuesNoServer ==
  [mqtt_server : {EMPTY, S_srv}, mqtt_port : {S_1883},
   mqtt_user : {EMPTY}, mqtt_password : {EMPTY},
   mqtt_topic : {S_switch1},
   button_pin : {S_9}, led_pin : {S_8}, power_pin : {S_5}]

\* faulty variant: power_pin is not persisted
SavedNs_mut(ns, c) ==
  LET n1 == PutString(ns, "server", c.mqtt_server)
      n2 == PutString(n1, "port", c.mqtt_port)
      n3 == PutString(n2, "user", c.mqtt_user)
      n4 == PutString(n3, "password", c.mqtt_password)
      n5 == PutString(n4, "topic", c.mqtt_topic)
      n6 == PutString(n5, "button_pin", c.button_pin)
  IN  PutString(n6, "led_pin", c.led_pin)
\* the save block of setup(): eight putString calls
SavedNs(ns, c) ==
  LET n1 == PutString(ns, "server", c.mqtt_server)
      n2 == PutString(n1, "port", c.mqtt_port)
      n3 == PutString(n2, "user", c.mqtt_user)
      n4 == PutString(n3, "password", c.mqtt_password)
      n5 == PutString(n4, "topic", c.mqtt_topic)
      n6 == PutString(n5, "button_pin", c.button_pin)
      n7 == PutString(n6, "led_pin", c.led_pin)
  IN  PutString(n7, "power_pin", c.power_pin)

\* setupPowerPin: only power_pin is read
LoadPowerPin(ns, c) ==
  LET savedPowerPin == GetString(ns, "power_pin", EMPTY)
  IN  IF savedPowerPin # EMPTY THEN [c EXCEPT !.power_pin = savedPowerPin]
      ELSE c

\* the load block of setup()
LoadConfig(ns, c) ==
  LET savedServer == GetString(ns, "server", EMPTY)
      c1 == IF savedServer # EMPTY
              THEN [c EXCEPT !.mqtt_server = savedServer,
                             !.mqtt_port = GetString(ns, "port", S_1883),
                             !.mqtt_user = GetString(ns, "user", EMPTY),
                             !.mqtt_password = GetString(ns, "password", EMPTY),
                             !.mqtt_topic = GetString(ns, "topic", S_esp32c2)]
              ELSE c
      savedLedPin == GetString(ns, "led_pin", EMPTY)
      c2 == IF savedLedPin # EMPTY THEN [c1 EXCEPT !.led_pin = savedLedPin]
            ELSE c1
      savedbuttonPin == GetString(ns, "button_pin", EMPTY)
  IN  IF savedbuttonPin # EMPTY THEN [c2 EXCEPT !.button_pin = savedbuttonPin]
      ELSE c2

----------------------------------------------------------------------------
(* Messaging *)

\* faulty variant: the button is not consulted
PublishData_mut(status, isConn, fms, btn, c) ==
  IF ~isConn THEN [ev |-> << >>, fms |-> fms]
  ELSE LET message == Snprintf(MESSAGE_SIZE, JsonHead \o status \o JsonTail)
           off == ~fms /\ Strcmp0(status, S_system_startup)
       IN  [ev |-> <<PubEv(c.mqtt_topic, message)>> \o
                   (IF off THEN <<PinEv(Atoi(c.power_pin), "LOW")>>
                    ELSE << >>),
            fms |-> (fms \/ off)]
\* publishData: what is published, whether the startup power-off fires
PublishData(status, isConn, fms, btn, c) ==
  IF ~isConn THEN [ev |-> << >>, fms |-> fms]
  ELSE LET message == Snprintf(MESSAGE_SIZE, JsonHead \o status \o JsonTail)
           off == ~fms /\ Strcmp0(status, S_system_startup) /\ btn = "HIGH"
       IN  [ev |-> <<PubEv(c.mqtt_topic, message)>> \o
                   (IF off THEN <<PinEv(Atoi(c.power_pin), "LOW")>>
                    ELSE << >>),
            fms |-> (fms \/ off)]

RECURSIVE ConnectLoop(_, _, _, _, _)
ConnectLoop(retry, isConn, outcomes, c, evs) ==
  IF ~isConn /\ retry < MAX_RETRY
    THEN IF outcomes[retry + 1]
           THEN [ok |-> TRUE, conn |-> TRUE, fails |-> retry,
                 ev |-> evs \o <<ConnEv(TRUE),
                   SubEv(Snprintf(MESSAGE_SIZE, c.mqtt_topic \o S_control))>>]
           ELSE ConnectLoop(retry + 1, isConn, outcomes, c,
                            evs \o <<ConnEv(FALSE)>>)
    ELSE [ok |-> FALSE, conn |-> isConn, fails |-> retry, ev |-> evs]

\* connectMQTT: outcomes[i] is the result of the i-th handshake, if made
ConnectMQTT(isConn, outcomes, c) == ConnectLoop(0, isConn, outcomes, c, << >>)

\* the transport reaches no broker at an empty server address: every
\* handshake of a call then fails; while the broker is up, every handshake
\* succeeds
ConnectInputs(c, up) ==
  IF c.mqtt_server = EMPTY THEN {[i \in 1 .. MaxOutcomes |-> FALSE]}
  ELSE IF up THEN {[i \in 1 .. MaxOutcomes |-> TRUE]}
  ELSE [1 .. MaxOutcomes -> BOOLEAN]

SubsOf(evs) == {evs[i].a : i \in {j \in 1 .. Len(evs) : evs[j].op = "sub"}}

----------------------------------------------------------------------------
(* Restart: RAM, the session and the pins are as after reset *)

Rebooted(evs) ==
  /\ cfg' = DefaultCfg
  /\ firstMessageSent' = FALSE
  /\ shouldSaveConfig' = FALSE
  /\ buttonPressTime' = 0
  /\ longPressActive' = FALSE
  /\ connected' = FALSE
  /\ subscribed' = {}
  /\ clientPort' = 0
  /\ gpio' = [p \in Pins |-> "Z"]
  /\ now' = LoopEntryMillis
  /\ pc' = "boot"
  /\ out' = evs
  /\ bootMismatch' = FALSE

\* Flash at the first boot of this firmware: a fresh device, or a device that
\* ran an earlier version of the sketch and was provisioned by it
Init ==
  /\ \/ /\ iot_config = EmptyNs
        /\ system_flags = EmptyNs
        /\ wifi_saved = FALSE
     \/ /\ iot_config \in {SavedNs(EmptyNs, c) : c \in PortalValuesFew}
        /\ system_flags = PutString(EmptyNs, VERSION_KEY, OLD_VERSION)
        /\ wifi_saved = TRUE
  /\ cfg = DefaultCfg
  /\ firstMessageSent = FALSE
  /\ shouldSaveConfig = FALSE
  /\ buttonPressTime = 0
  /\ longPressActive = FALSE
  /\ connected = FALSE
  /\ subscribed = {}
  /\ clientPort = 0
  /\ gpio = [p \in Pins |-> "Z"]
  /\ button = "HIGH"
  /\ now = LoopEntryMillis
  /\ pc = "boot"
  /\ out = << >>
  /\ bootMismatch = FALSE
  /\ heldFor = 0
  /\ resetsThisPress = 0

----------------------------------------------------------------------------
(* setup() *)

SetupPowerPin ==
  /\ pc = "boot"
  /\ LET c == LoadPowerPin(iot_config, cfg)
         evs == <<PinEv(Atoi(c.power_pin), "HIGH")>>
     IN  /\ cfg' = c
         /\ gpio' = ApplyPins(gpio, evs)
         /\ out' = evs
  /\ pc' = "version"
  /\ UNCHANGED <<iot_config, system_flags, wifi_saved, firstMessageSent,
                 shouldSaveConfig, buttonPressTime, longPressActive, connected,
                 subscribed, clientPort, button, now, bootMismatch, heldFor,
                 resetsThisPress>>

CheckFirmwareVersion ==
  /\ pc = "version"
  /\ LET savedVersion == GetString(system_flags, VERSION_KEY, EMPTY)
     IN  IF savedVersion # FIRMWARE_VERSION
           THEN LET evs == <<ClearEv("iot_config"), WifiResetEv,
                             PutEv(VERSION_KEY, FIRMWARE_VERSION)>>
                           \o Blink(DEFAULT_LED_PIN, 10)
                IN  /\ iot_config' = Clear(iot_config)
                    /\ wifi_saved' = FALSE
                    /\ system_flags' =
                         PutString(system_flags, VERSION_KEY, FIRMWARE_VERSION)
                    /\ gpio' = ApplyPins(gpio, evs)
                    /\ out' = evs
                    /\ bootMismatch' = TRUE
           ELSE /\ out' = << >>
                /\ bootMismatch' = FALSE
                /\ UNCHANGED <<iot_config, wifi_saved, system_flags, gpio>>
  /\ pc' = "load"
  /\ UNCHANGED <<cfg, firstMessageSent, shouldSaveConfig, buttonPressTime,
                 longPressActive, connected, subscribed, clientPort, button,
                 now, heldFor, resetsThisPress>>

\* load block, pin initialisation, client.setServer
LoadAndInit ==
  /\ pc = "load"
  /\ LET c == LoadConfig(iot_config, cfg)
         evs == <<PinEv(Atoi(c.led_pin), "LOW")>>
     IN  /\ cfg' = c
         /\ gpio' = ApplyPins(gpio, evs)
         /\ out' = evs
         /\ clientPort' = Atoi(c.mqtt_port)
  /\ pc' = "provision"
  /\ UNCHANGED <<iot_config, system_flags, wifi_saved, firstMessageSent,
                 shouldSaveConfig, buttonPressTime, longPressActive, connected,
                 subscribed, button, now, bootMismatch, heldFor,
                 resetsThisPress>>

\* autoConnect, the portal on failure, and the read-back of the parameters.
\* The portal (inside autoConnect or started by the sketch) may change the
\* parameter values and may call saveConfigCallback.
Provision(values) ==
  /\ pc = "provision"
  /\ \E portal \in BOOLEAN, autoOk \in BOOLEAN, cb \in BOOLEAN,
        vals \in values \cup {cfg} :
       /\ ~portal => (wifi_saved /\ autoOk /\ ~cb /\ vals = cfg)
       /\ LET led == Atoi(cfg.led_pin)
              evs == IF autoOk THEN << >>
                     ELSE <<PinEv(led, "HIGH"), PinEv(led, "LOW")>>
          IN  /\ gpio' = ApplyPins(gpio, evs)
              /\ out' = evs
       /\ cfg' = vals
       /\ shouldSaveConfig' = cb
       /\ wifi_saved' = (wifi_saved \/ cb)
  /\ pc' = "save"
  /\ UNCHANGED <<iot_config, system_flags, firstMessageSent, buttonPressTime,
                 longPressActive, connected, subscribed, clientPort, button,
                 now, bootMismatch, heldFor, resetsThisPress>>

\* the save block and the pin re-initialisation
SaveConfig ==
  /\ pc = "save"
  /\ IF shouldSaveConfig
       THEN LET evs == <<PutEv("server", cfg.mqtt_server),
                         PutEv("port", cfg.mqtt_port),
                         PutEv("user", cfg.mqtt_user),
                         PutEv("password", cfg.mqtt_password),
                         PutEv("topic", cfg.mqtt_topic),
                         PutEv("button_pin", cfg.button_pin),
                         PutEv("led_pin", cfg.led_pin),
                         PutEv("power_pin", cfg.power_pin),
                         PinEv(Atoi(cfg.led_pin), "LOW"),
                         PinEv(Atoi(cfg.power_pin), "HIGH")>>
            IN  /\ iot_config' = SavedNs(iot_config, cfg)
                /\ gpio' = ApplyPins(gpio, evs)
                /\ out' = evs
       ELSE /\ out' = << >>
            /\ UNCHANGED <<iot_config, gpio>>
  /\ pc' = "connect"
  /\ UNCHANGED <<system_flags, wifi_saved, cfg, firstMessageSent,
                 shouldSaveConfig, buttonPressTime, longPressActive, connected,
                 subscribed, clientPort, button, now, bootMismatch, heldFor,
                 resetsThisPress>>

\* connectMQTT and, on success, publishData("system_startup")
BootConnect(upFrom) ==
  /\ pc = "connect"
  /\ \E outcomes \in ConnectInputs(cfg, now >= upFrom) :
       LET r == ConnectMQTT(connected, outcomes, cfg)
           p == IF r.ok
                  THEN PublishData(S_system_startup, r.conn, firstMessageSent,
                                   DigitalRead(Atoi(cfg.button_pin)), cfg)
                  ELSE [ev |-> << >>, fms |-> firstMessageSent]
           evs == r.ev \o p.ev
       IN  /\ connected' = r.conn
           /\ subscribed' = subscribed \cup SubsOf(r.ev)
           /\ firstMessageSent' = p.fms
           /\ gpio' = ApplyPins(gpio, evs)
           /\ out' = evs
           /\ pc' = IF r.ok THEN "sleepcheck" ELSE "loop_button"
  /\ UNCHANGED <<iot_config, system_flags, wifi_saved, cfg, shouldSaveConfig,
                 buttonPressTime, longPressActive, clientPort, button, now,
                 bootMismatch, heldFor, resetsThisPress>>

\* faulty variant: the button is not read again
SleepDue_mut(fms, btn) == fms
\* faulty variant: firstMessageSent is not tested
SleepDue_nofms(fms, btn) == btn = "HIGH"
\* the condition of the deep-sleep decision
SleepDue(fms, btn) == fms /\ btn = "HIGH"

\* the deep-sleep decision after the startup message
SleepDecision ==
  /\ pc = "sleepcheck"
  /\ IF SleepDue(firstMessageSent, DigitalRead(Atoi(cfg.button_pin)))
       THEN /\ pc' = "sleep"
            /\ out' = <<SleepEv>>
       ELSE /\ pc' = "loop_button"
            /\ out' = << >>
  /\ UNCHANGED <<iot_config, system_flags, wifi_saved, cfg, firstMessageSent,
                 shouldSaveConfig, buttonPressTime, longPressActive, connected,
                 subscribed, clientPort, gpio, button, now, bootMismatch,
                 heldFor, resetsThisPress>>

----------------------------------------------------------------------------
(* loop() *)

\* a delay of d ms: the clock advances, and so does a hold in progress
Elapse(d) ==
  /\ now' = now + d
  /\ heldFor' = IF button = "LOW" THEN Min(heldFor + d, RESET_HOLD_TIME) ELSE 0

\* faulty variant: >= in place of >
LongPressDue_mut(t, pressTime, latch) ==
  ~latch /\ (t - pressTime >= RESET_HOLD_TIME)
\* the long-press condition of checkResetButton
LongPressDue(t, pressTime, latch) ==
  ~latch /\ (t - pressTime > RESET_HOLD_TIME)

\* resetConfig: ten toggles of the indicator, forget the network, restart
ResetConfig ==
  LET led == Atoi(cfg.led_pin)
      evs == <<ResetEv(heldFor)>> \o Toggle(led, DigitalRead(led), 10)
             \o <<WifiResetEv, RestartEv>>
  IN  /\ wifi_saved' = FALSE
      /\ Rebooted(evs)
      /\ resetsThisPress' = Min(resetsThisPress + 1, MaxResets)
      /\ heldFor' = IF button = "LOW"
                      THEN Min(heldFor + 10 * BLINK_DELAY, RESET_HOLD_TIME)
                      ELSE 0
      /\ UNCHANGED <<iot_config, system_flags, button>>

\* faulty variant: the session is never looked at
NeedsReconnect_mut(conn) == FALSE
\* the test of loop() that guards reconnectMQTT
NeedsReconnect(conn) == ~conn

\* checkResetButton, and the test of client.connected() that follows it
CheckResetButton ==
  /\ pc = "loop_button"
  /\ IF DigitalRead(Atoi(cfg.button_pin)) = "LOW"
            /\ buttonPressTime # 0
            /\ LongPressDue(now, buttonPressTime, longPressActive)
       THEN ResetConfig
       ELSE /\ IF DigitalRead(Atoi(cfg.button_pin)) = "LOW"
                 THEN /\ buttonPressTime' =
                           IF buttonPressTime = 0 THEN now ELSE buttonPressTime
                      /\ UNCHANGED longPressActive
                 ELSE /\ buttonPressTime' = 0
                      /\ longPressActive' = FALSE
            /\ pc' = IF NeedsReconnect(connected) THEN "loop_mqtt"
                     ELSE "loop_pump"
            /\ out' = << >>
            /\ UNCHANGED <<iot_config, system_flags, wifi_saved, cfg,
                           firstMessageSent, shouldSaveConfig, connected,
                           subscribed, clientPort, gpio, button, now,
                           bootMismatch, heldFor, resetsThisPress>>

\* faulty variant: the startup status is published again
ReconnectStatus_mut == S_system_startup
\* the status reconnectMQTT publishes
ReconnectStatus == S_reconnected

\* reconnectMQTT, called when client.connected() was false
LoopReconnect(maxTime, upFrom) ==
  /\ pc = "loop_mqtt"
  /\ \E outcomes \in ConnectInputs(cfg, now >= upFrom) :
       LET r == ConnectMQTT(connected, outcomes, cfg)
           p == IF r.ok
                  THEN PublishData(ReconnectStatus, r.conn, firstMessageSent,
                                   DigitalRead(Atoi(cfg.button_pin)), cfg)
                  ELSE [ev |-> << >>, fms |-> firstMessageSent]
           evs == r.ev \o p.ev
       IN  /\ now < maxTime
           /\ connected' = r.conn
           /\ subscribed' = subscribed \cup SubsOf(r.ev)
           /\ firstMessageSent' = p.fms
           /\ gpio' = ApplyPins(gpio, evs)
           /\ out' = evs
           /\ Elapse(r.fails * RETRY_DELAY)
  /\ pc' = "loop_pump"
  /\ UNCHANGED <<iot_config, system_flags, wifi_saved, cfg, shouldSaveConfig,
                 buttonPressTime, longPressActive, clientPort, button,
                 bootMismatch, resetsThisPress>>

\* faulty variant: system_flags is not cleared
ClearAllData_mut(first) ==
  LET evs == first \o Blink(Atoi(cfg.led_pin), 5)
             \o <<ClearEv("iot_config"), WifiResetEv, RestartEv>>
  IN  /\ iot_config' = Clear(iot_config)
      /\ wifi_saved' = FALSE
      /\ Rebooted(evs)
      /\ heldFor' = IF button = "LOW"
                      THEN Min(heldFor + 20 * BLINK_DELAY, RESET_HOLD_TIME)
                      ELSE 0
      /\ UNCHANGED <<system_flags, button, resetsThisPress>>
\* clearAllData: five blinks, clear both namespaces, forget the network, restart
ClearAllData(first) ==
  LET evs == first \o Blink(Atoi(cfg.led_pin), 5)
             \o <<ClearEv("iot_config"), ClearEv("system_flags"),
                  WifiResetEv, RestartEv>>
  IN  /\ iot_config' = Clear(iot_config)
      /\ system_flags' = Clear(system_flags)
      /\ wifi_saved' = FALSE
      /\ Rebooted(evs)
      /\ heldFor' = IF button = "LOW"
                      THEN Min(heldFor + 20 * BLINK_DELAY, RESET_HOLD_TIME)
                      ELSE 0
      /\ UNCHANGED <<button, resetsThisPress>>

IsClear(payload) == Strcmp0(payload \o <<0>>, S_clear_all_data)
IsOn(payload) == Strcmp0(payload \o <<0>>, S_on)
IsOff(payload) == Strcmp0(payload \o <<0>>, S_off)

\* faulty variant: the two levels are swapped
CommandLevel_mut(payload) ==
  IF IsOn(payload) THEN "LOW" ELSE IF IsOff(payload) THEN "HIGH" ELSE "NONE"
\* the level callback writes to the power pin for a payload
CommandLevel(payload) ==
  IF IsOn(payload) THEN "HIGH" ELSE IF IsOff(payload) THEN "LOW" ELSE "NONE"

\* callback(topic, payload, length) for a command other than clear_all_data,
\* then the delay(100) that ends the iteration
Callback(payload) ==
  LET level == CommandLevel(payload)
      w == IF level = "NONE" THEN << >>
           ELSE <<PinEv(Atoi(cfg.power_pin), level)>>
      p == IF IsOn(payload)
             THEN PublishData(S_on, connected, firstMessageSent,
                              DigitalRead(Atoi(cfg.button_pin)), cfg)
           ELSE IF IsOff(payload)
             THEN PublishData(S_off, connected, firstMessageSent,
                              DigitalRead(Atoi(cfg.button_pin)), cfg)
           ELSE [ev |-> << >>, fms |-> firstMessageSent]
      evs == <<MsgEv(payload)>> \o w \o p.ev
  IN  /\ gpio' = ApplyPins(gpio, evs)
      /\ firstMessageSent' = p.fms
      /\ out' = evs
      /\ Elapse(LOOP_DELAY)
      /\ pc' = "loop_button"
      /\ UNCHANGED <<iot_config, system_flags, wifi_saved, cfg,
                     shouldSaveConfig, buttonPressTime, longPressActive,
                     connected, subscribed, clientPort, button, bootMismatch,
                     resetsThisPress>>

\* payloads the broker may deliver on the control topic
Payloads ==
  {S_on, S_off, S_clear_all_data,
   <<79, 78>>,                      \* "ON"
   <<111>>,                         \* "o"
   S_on \o <<32>>,                  \* "on "
   S_off \o <<0, 120>>,             \* "off", NUL, "x"
   << >>}

\* client.loop() delivering one message, and delay(100)
ClientLoopMessage(maxTime, payloads) ==
  /\ pc = "loop_pump"
  /\ connected
  /\ subscribed # {}
  /\ now < maxTime
  /\ \E payload \in payloads :
       IF IsClear(payload) THEN ClearAllData(<<MsgEv(payload)>>)
       ELSE Callback(payload)

\* client.loop() with nothing to deliver, and delay(100)
ClientLoopIdle(maxTime) ==
  /\ pc = "loop_pump"
  /\ now < maxTime
  /\ Elapse(LOOP_DELAY)
  /\ pc' = "loop_button"
  /\ out' = << >>
  /\ UNCHANGED <<iot_config, system_flags, wifi_saved, cfg, firstMessageSent,
                 shouldSaveConfig, buttonPressTime, longPressActive, connected,
                 subscribed, clientPort, gpio, button, bootMismatch,
                 resetsThisPress>>

----------------------------------------------------------------------------
(* The environment *)

Press ==
  /\ button = "HIGH"
  /\ now <= MaxPressTime
  /\ button' = "LOW"
  /\ heldFor' = 0
  /\ resetsThisPress' = 0
  /\ UNCHANGED <<iot_config, system_flags, wifi_saved, cfg, firstMessageSent,
                 shouldSaveConfig, buttonPressTime, longPressActive, connected,
                 subscribed, clientPort, gpio, now, pc, out, bootMismatch>>

Release ==
  /\ button = "LOW"
  /\ button' = "HIGH"
  /\ heldFor' = 0
  /\ UNCHANGED <<iot_config, system_flags, wifi_saved, cfg, firstMessageSent,
                 shouldSaveConfig, buttonPressTime, longPressActive, connected,
                 subscribed, clientPort, gpio, now, pc, out, bootMismatch,
                 resetsThisPress>>

\* the transport loses the session
Drop ==
  /\ connected
  /\ pc \in {"loop_button", "loop_pump"}
  /\ connected' = FALSE
  /\ subscribed' = {}
  /\ UNCHANGED <<iot_config, system_flags, wifi_saved, cfg, firstMessageSent,
                 shouldSaveConfig, buttonPressTime, longPressActive, clientPort,
                 gpio, button, now, pc, out, bootMismatch, heldFor,
                 resetsThisPress>>

\* the wake signal ends deep sleep: the sketch starts again from setup()
Wake ==
  /\ pc = "sleep"
  /\ Rebooted(<< >>)
  /\ UNCHANGED <<iot_config, system_flags, wifi_saved, button, heldFor,
                 resetsThisPress>>

----------------------------------------------------------------------------

\* the steps of the sketch
SketchWith(values, maxTime, payloads, upFrom) ==
  \/ SetupPowerPin
  \/ CheckFirmwareVersion
  \/ LoadAndInit
  \/ Provision(values)
  \/ SaveConfig
  \/ BootConnect(upFrom)
  \/ SleepDecision
  \/ CheckResetButton
  \/ LoopReconnect(maxTime, upFrom)
  \/ ClientLoopMessage(maxTime, payloads)
  \/ ClientLoopIdle(maxTime)

NextWith(values, maxTime, payloads, upFrom) ==
  \/ SketchWith(values, maxTime, payloads, upFrom)
  \/ Press
  \/ Release
  \/ Drop
  \/ Wake

\* Spec: one portal submission, time enough for a long press.
\* SpecCfg: many portal submissions and payloads, a short time.
\* SpecNoServer: submissions with and without a server address, time enough
\* for a long press across failed reconnections.
Next ==
  NextWith(PortalValuesFew, MaxHoldTime, {S_on, S_off, S_clear_all_data},
           BrokerNeverUp)

Spec == Init /\ [][Next]_vars

NextCfg == NextWith(PortalValues, MaxCfgTime, Payloads, BrokerNeverUp)

SpecCfg == Init /\ [][NextCfg]_vars

NextNoServer ==
  NextWith(PortalValuesNoServer, MaxNoServerTime, {S_off, S_clear_all_data},
           BrokerNeverUp)

SpecNoServer == Init /\ [][NextNoServer]_vars

\* The broker is up from BrokerUpFrom on.  The sketch is one thread that
\* never blocks for good outside deep sleep: its next step is always taken.
NextLive ==
  NextWith(PortalValuesFew, MaxLiveTime, {S_clear_all_data},
           BrokerUpFrom)

SpecLive ==
  /\ Init
  /\ [][NextLive]_vars
  /\ WF_vars(SketchWith(PortalValuesFew, MaxLiveTime,
                        {S_clear_all_data}, BrokerUpFrom))

----------------------------------------------------------------------------
(* Vocabulary of the properties *)

BootDone == pc \in {"sleep", "loop_button", "loop_mqtt", "loop_pump"}
StoredVersion == GetString(system_flags, VERSION_KEY, EMPTY)
PowerPinNo == Atoi(cfg.power_pin)
LedPinNo == Atoi(cfg.led_pin)
ButtonLevel == DigitalRead(Atoi(cfg.button_pin))

J_on == <<123, 34, 115, 116, 97, 116, 117, 115, 34, 58, 34,
          111, 110, 34, 125>>                       \* {"status":"on"}
J_off == <<123, 34, 115, 116, 97, 116, 117, 115, 34, 58, 34,
           111, 102, 102, 34, 125>>                 \* {"status":"off"}
J_reconnected ==
  <<123, 34, 115, 116, 97, 116, 117, 115, 34, 58, 34,
    114, 101, 99, 111, 110, 110, 101, 99, 116, 101, 100, 34, 125>>
J_system_startup ==
  <<123, 34, 115, 116, 97, 116, 117, 115, 34, 58, 34,
    115, 121, 115, 116, 101, 109, 95, 115, 116, 97, 114, 116, 117, 112,
    34, 125>>

OpsAt(evs, op) == {i \in 1 .. Len(evs) : evs[i].op = op}
PubsOf(evs, msg) == {i \in OpsAt(evs, "pub") : evs[i].b = msg}
Has(evs, op) == OpsAt(evs, op) # {}
ResetInvoked(evs) == evs # << >> /\ evs[1].op = "reset"
Delivered(evs, payload) ==
  evs # << >> /\ evs[1].op = "msg" /\ evs[1].a = payload

\* what setupPowerPin and the load block make of a namespace
Hydrate(ns) == LoadConfig(ns, LoadPowerPin(ns, DefaultCfg))

InLoop == pc \in {"loop_button", "loop_mqtt", "loop_pump"}

\* the steps of the sketch, told apart from the environment's by pc
SampleStep == pc = "loop_button" /\ pc' # pc
DeliverStep(payload) ==
  pc = "loop_pump" /\ pc' # pc /\ Delivered(out', payload)
ConnectStep == pc \in {"connect", "loop_mqtt"} /\ pc' # pc

----------------------------------------------------------------------------
(* C1 *)

\* C1 as stated: when a boot whose version check found a mismatch has
\* completed, iot_config is empty and the stored marker is the compiled version.
C1_AsStated ==
  (bootMismatch /\ BootDone)
    => (iot_config = EmptyNs /\ StoredVersion = FIRMWARE_VERSION)

\* C1, amended: when a boot whose version check found a mismatch has
\* completed, the stored marker is the compiled version and iot_config holds
\* nothing from before the boot: it is empty, or, if the save callback fired in
\* this boot, exactly the eight fields this boot saved.  A version check that
\* finds the marker equal to the compiled version changes neither namespace
\* nor the network association.
C1_VersionGuard ==
  /\ [](  (bootMismatch /\ BootDone)
            => /\ StoredVersion = FIRMWARE_VERSION
               /\ iot_config = IF shouldSaveConfig THEN SavedNs(EmptyNs, cfg)
                               ELSE EmptyNs)
  /\ [][ (pc = "version" /\ pc' # pc /\ StoredVersion = FIRMWARE_VERSION)
           => /\ iot_config' = iot_config
              /\ system_flags' = system_flags
              /\ wifi_saved' = wifi_saved
              /\ out' = << >> ]_vars

C1_Witness ==
  bootMismatch /\ BootDone /\ shouldSaveConfig /\ iot_config # EmptyNs

----------------------------------------------------------------------------
(* C2 *)

StoredCfg(ns) ==
  [mqtt_server |-> ns["server"], mqtt_port |-> ns["port"],
   mqtt_user |-> ns["user"], mqtt_password |-> ns["password"],
   mqtt_topic |-> ns["topic"], button_pin |-> ns["button_pin"],
   led_pin |-> ns["led_pin"], power_pin |-> ns["power_pin"]]

\* C2: on a boot with a matching version, once the configuration is loaded and
\* before provisioning, the in-memory configuration equals, field for field,
\* the eight values the earlier save persisted.
C2_RoundTrip ==
  (pc = "provision" /\ ~bootMismatch /\ DOMAIN iot_config = Keys)
    => cfg = StoredCfg(iot_config)

----------------------------------------------------------------------------
(* C3 *)

----------------------------------------------------------------------------
(* C4 *)

\* C4: whenever the local reset is invoked, the button has then been held
\* without release for the threshold (5000 ms) or longer.
C4_ShortPressNoReset ==
  ResetInvoked(out) => out[1].a[1] >= RESET_HOLD_TIME

----------------------------------------------------------------------------
(* C5 *)

\* C5: delivering "clear_all_data" ends in the restart with iot_config and
\* system_flags empty and the network association forgotten; the five blinks
\* of the configured indicator pin come first, the restart last, and the step
\* neither writes the power pin nor publishes.
C5_FullWipe ==
  [][ DeliverStep(S_clear_all_data)
        => /\ pc' = "boot"
           /\ iot_config' = EmptyNs
           /\ system_flags' = EmptyNs
           /\ ~wifi_saved'
           /\ Len(out') = 15
           /\ \A i \in 1 .. 5 :
                /\ out'[2 * i] = PinEv(LedPinNo, "HIGH")
                /\ out'[2 * i + 1] = PinEv(LedPinNo, "LOW")
           /\ out'[12].op = "clear" /\ out'[13].op = "clear"
           /\ {out'[12].k, out'[13].k} = {"iot_config", "system_flags"}
           /\ out'[14] = WifiResetEv
           /\ out'[15] = RestartEv
           /\ ~Has(out', "pub")
           /\ \A i \in OpsAt(out', "pin") : out'[i].a # <<PowerPinNo>> ]_vars

C5_Witness ==
  /\ Delivered(out, S_clear_all_data)
  /\ pc = "boot"
  /\ button = "LOW"
  /\ iot_config = EmptyNs /\ system_flags = EmptyNs

----------------------------------------------------------------------------
(* C6 *)

\* C6: the startup publish of setup() with the button not held (HIGH) drives
\* the power pin LOW and sets firstMessageSent; with the button held (LOW) it
\* leaves the pins and firstMessageSent as they were; after a publish of any
\* other status no pin is written in that step.
C6_StartupPowerOff ==
  /\ [][ (pc = "connect" /\ pc' = "sleepcheck")
           => /\ PubsOf(out', J_system_startup) # {}
              /\ IF ButtonLevel = "HIGH"
                   THEN gpio'[PowerPinNo] = "LOW" /\ firstMessageSent'
                   ELSE gpio' = gpio
                        /\ firstMessageSent' = firstMessageSent ]_vars
  /\ [](\A i \in OpsAt(out, "pub") :
          out[i].b # J_system_startup
            => \A j \in OpsAt(out, "pin") : j < i)

C6_Witness ==
  /\ pc = "sleepcheck"
  /\ firstMessageSent
  /\ gpio[PowerPinNo] = "LOW"
  /\ button = "HIGH"

----------------------------------------------------------------------------
(* C7 *)

\* C7: delivering "on" writes the power pin HIGH and then publishes
\* {"status":"on"} on the configured topic; delivering "off" writes it LOW and
\* then publishes {"status":"off"}; whatever the pin held before (boot-time
\* assertion, startup power-off, an earlier command), it holds the level of
\* this last write, and no other pin changes.
C7_OnOff ==
  [][ /\ DeliverStep(S_on)
          => /\ out' = <<MsgEv(S_on), PinEv(PowerPinNo, "HIGH"),
                         PubEv(cfg.mqtt_topic, J_on)>>
             /\ gpio' = [gpio EXCEPT ![PowerPinNo] = "HIGH"]
      /\ DeliverStep(S_off)
          => /\ out' = <<MsgEv(S_off), PinEv(PowerPinNo, "LOW"),
                         PubEv(cfg.mqtt_topic, J_off)>>
             /\ gpio' = [gpio EXCEPT ![PowerPinNo] = "LOW"] ]_vars

\* "on" received after the startup power-off
C7_Witness ==
  /\ Delivered(out, S_on)
  /\ firstMessageSent
  /\ gpio[PowerPinNo] = "HIGH"

----------------------------------------------------------------------------
(* C8 *)

\* C8: delivering a payload that is not exactly "on", "off" or
\* "clear_all_data" changes nothing: pins, both namespaces, the network
\* association and the session stay as they are, nothing is published and the
\* device does not restart.
C8_OtherPayloadIgnored ==
  [][ (pc = "loop_pump" /\ pc' # pc /\ out' # << >> /\ out'[1].op = "msg"
         /\ out'[1].a \notin {S_on, S_off, S_clear_all_data})
        => /\ gpio' = gpio
           /\ iot_config' = iot_config
           /\ system_flags' = system_flags
           /\ wifi_saved' = wifi_saved
           /\ connected' = connected
           /\ subscribed' = subscribed
           /\ Len(out') = 1
           /\ pc' = "loop_button" ]_vars

----------------------------------------------------------------------------
(* C9 *)

\* C9: a call of connectMQTT makes at most 3 handshake attempts; it succeeds
\* exactly when one of them succeeded, which is then the last attempt and is
\* followed at once by the subscription to "<topic>/control"; it fails after
\* the third failed attempt, without subscribing.
C9_BoundedConnect ==
  [][ ConnectStep
        => LET attempts == OpsAt(out', "connect")
               won == {i \in attempts : out'[i].k = "ok"}
               control == cfg.mqtt_topic
                            \o <<47, 99, 111, 110, 116, 114, 111, 108>>
           IN  /\ Cardinality(attempts) <= 3
               /\ connected' <=> (won # {})
               /\ (pc = "connect") => (pc' = "sleepcheck" <=> won # {})
               /\ won # {}
                    => /\ Cardinality(won) = 1
                       /\ \A i \in won :
                            /\ \A j \in attempts : j <= i
                            /\ out'[i + 1] = SubEv(control)
                       /\ OpsAt(out', "sub") = {i + 1 : i \in won}
                       /\ control \in subscribed'
               /\ won = {}
                    => /\ Cardinality(attempts) = 3
                       /\ ~Has(out', "sub")
                       /\ subscribed' = subscribed ]_vars

\* a call that succeeded at its third attempt
C9_Witness ==
  /\ connected
  /\ Cardinality(OpsAt(out, "connect")) = 3
  /\ Has(out, "sub")

----------------------------------------------------------------------------
(* C10 *)

\* C10: an iteration of loop() calls reconnectMQTT exactly when the session is
\* disconnected at its test, and the call makes at least one handshake; the
\* call publishes {"status":"reconnected"} exactly once if it connected and
\* not at all if it failed; no other step publishes it.
C10_Reconnect ==
  [][ /\ (SampleStep /\ pc' # "boot") => (pc' = "loop_mqtt" <=> ~connected)
      /\ (pc = "loop_mqtt" /\ pc' # pc)
           => /\ ~connected
              /\ Has(out', "connect")
              /\ Cardinality(PubsOf(out', J_reconnected))
                   = IF connected' THEN 1 ELSE 0
              /\ Cardinality(OpsAt(out', "pub"))
                   = IF connected' THEN 1 ELSE 0
      /\ (pc # "loop_mqtt" /\ out' # out)
           => PubsOf(out', J_reconnected) = {} ]_vars

\* a reconnection in loop() after two failed handshakes
C10_Witness ==
  /\ pc = "loop_pump"
  /\ connected
  /\ PubsOf(out, J_reconnected) # {}
  /\ Cardinality(OpsAt(out, "connect")) = 3

----------------------------------------------------------------------------
(* C11 *)

\* C11: the startup publish sets firstMessageSent exactly when it finds the
\* button not held; a failed boot connect goes to loop(); the sleep decision
\* enters deep sleep exactly when firstMessageSent is set and the button is
\* again read as not held, and goes to loop() otherwise; deep sleep is
\* entered by no other step; loop() is left only by the restart that ends
\* the full wipe or the local reset.
C11_SleepDecision ==
  [][ /\ (pc = "connect" /\ pc' # pc)
           => /\ ~firstMessageSent
              /\ pc' = IF connected' THEN "sleepcheck" ELSE "loop_button"
              /\ firstMessageSent' <=> (connected' /\ ButtonLevel = "HIGH")
              /\ ~Has(out', "sleep")
      /\ (pc = "sleepcheck" /\ pc' # pc)
           => /\ pc' \in {"sleep", "loop_button"}
              /\ pc' = "sleep" <=> (firstMessageSent /\ ButtonLevel = "HIGH")
              /\ out' = IF pc' = "sleep" THEN <<SleepEv>> ELSE << >>
      /\ ((pc' = "sleep" /\ pc # "sleep") \/ (Has(out', "sleep") /\ out' # out))
           => pc = "sleepcheck"
      /\ (InLoop /\ pc' # pc)
           => \/ pc' \in {"loop_button", "loop_mqtt", "loop_pump"}
              \/ /\ pc' = "boot"
                 /\ out'[Len(out')] = RestartEv
                 /\ ResetInvoked(out') \/ Has(out', "clear") ]_vars

\* the startup power-off fired, the button went down before the sleep
\* decision, and the sketch is in loop()
C11_Witness ==
  /\ pc = "loop_button"
  /\ now = LoopEntryMillis
  /\ firstMessageSent
  /\ gpio[PowerPinNo] = "LOW"
  /\ button = "LOW"

----------------------------------------------------------------------------
(* C12 *)

\* C12: the first side effect of a boot is the power pin driven HIGH; after
\* that the configured power pin is HIGH in every state until the startup
\* power-off or a delivered "off" drives it LOW (or the device restarts): no
\* other step takes the configured power pin away from HIGH.
C12_PowerFirst ==
  /\ [][ (pc = "boot" /\ pc' # pc)
           => /\ out' # << >>
              /\ out'[1] = PinEv(Atoi(cfg'.power_pin), "HIGH")
              /\ gpio'[Atoi(cfg'.power_pin)] = "HIGH" ]_vars
  /\ [][ (pc # "boot" /\ gpio[PowerPinNo] = "HIGH"
            /\ gpio'[Atoi(cfg'.power_pin)] # "HIGH")
           => \/ pc = "connect" /\ firstMessageSent'
              \/ pc = "loop_pump" /\ out' # << >> /\ out'[1].op = "msg"
                   /\ IsOff(out'[1].a)
              \/ pc' = "boot" ]_vars

----------------------------------------------------------------------------
(* C13 *)

\* C13: the local reset forgets the network association, leaves iot_config
\* and system_flags as they are, writes only the indicator pin and ends in
\* the restart; the stored version is the compiled one, so the next boot
\* wipes nothing, and it hydrates the settings that were saved: the eight
\* stored values, field for field.
C13_LocalReset ==
  [][ (SampleStep /\ ResetInvoked(out'))
        => /\ ~wifi_saved'
           /\ iot_config' = iot_config
           /\ system_flags' = system_flags
           /\ \A i \in OpsAt(out', "pin") : out'[i].a = <<LedPinNo>>
           /\ ~Has(out', "clear") /\ ~Has(out', "put")
           /\ pc' = "boot" /\ out'[Len(out')] = RestartEv
           /\ GetString(system_flags', VERSION_KEY, EMPTY) = FIRMWARE_VERSION
           /\ DOMAIN iot_config = Keys
                => Hydrate(iot_config') = StoredCfg(iot_config) ]_vars

----------------------------------------------------------------------------
(* C14 *)

\* C14: in a boot whose version check found a mismatch, after the wipe and
\* until the portal is read back the in-memory configuration holds the
\* compiled defaults in every field, the three pin assignments included:
\* nothing stored before the wipe is offered to the portal or left for
\* later pin writes and saves.
C14_WipeBeforeHydrate ==
  (bootMismatch /\ pc \in {"load", "provision"}) => cfg = DefaultCfg

----------------------------------------------------------------------------
(* C15 *)

\* C15: the save block writes iot_config exactly when the save callback
\* fired; it then persists all eight fields, the stored values being the
\* in-memory ones, drives the indicator pin LOW and the power pin HIGH under
\* the new assignments, and only then the messaging connect follows; if the
\* callback did not fire the block changes nothing.  Provisioning, the
\* connect and the sleep decision never change iot_config, and apart from
\* the save block only a wipe does.
C15_SaveAllOrNothing ==
  [][ /\ (pc = "provision") => ~shouldSaveConfig
      /\ (pc = "save" /\ pc' # pc)
           => /\ pc' = "connect"
              /\ ~Has(out', "connect")
              /\ IF shouldSaveConfig
                   THEN /\ DOMAIN iot_config' = Keys
                        /\ StoredCfg(iot_config') = cfg
                        /\ Len(out') = 10
                        /\ {out'[i].k : i \in 1 .. 8} = Keys
                        /\ \A i \in 1 .. 8 : out'[i].op = "put"
                        /\ out'[9] = PinEv(LedPinNo, "LOW")
                        /\ out'[10] = PinEv(PowerPinNo, "HIGH")
                        /\ gpio'[LedPinNo] = "LOW"
                        /\ gpio'[PowerPinNo] = "HIGH"
                   ELSE /\ iot_config' = iot_config
                        /\ gpio' = gpio
                        /\ out' = << >>
      /\ (pc \in {"provision", "connect", "sleepcheck"} /\ pc' # pc)
           => /\ iot_config' = iot_config
              /\ ~Has(out', "put")
      /\ (iot_config' # iot_config)
           => \/ pc = "save" /\ shouldSaveConfig
              \/ Has(out', "clear") ]_vars

\* saved in this boot: a power pin other than the default, now driven HIGH
C15_Witness ==
  /\ pc = "connect"
  /\ shouldSaveConfig
  /\ Len(out) = 10
  /\ iot_config = SavedNs(EmptyNs, cfg)
  /\ cfg.power_pin = S_5 /\ cfg.led_pin = S_3
  /\ gpio[5] = "HIGH" /\ gpio[3] = "LOW"

----------------------------------------------------------------------------
(* C16 *)

FieldOf ==
  [server |-> "mqtt_server", port |-> "mqtt_port", user |-> "mqtt_user",
   password |-> "mqtt_password", topic |-> "mqtt_topic",
   button_pin |-> "button_pin", led_pin |-> "led_pin",
   power_pin |-> "power_pin"]

\* C16: on a boot with a matching version, once the configuration is loaded,
\* each of the eight fields holds the value stored under its key if there is
\* one and its compiled default otherwise, whatever is stored under the
\* other keys.
C16_FieldIndependent ==
  (pc = "provision" /\ ~bootMismatch)
    => \A k \in Keys :
         cfg[FieldOf[k]] = GetString(iot_config, k, DefaultCfg[FieldOf[k]])

----------------------------------------------------------------------------
(* C17 *)

ControlTopic == cfg.mqtt_topic \o <<47, 99, 111, 110, 116, 114, 111, 108>>

\* C17: an iteration of loop() that finds the session disconnected calls
\* reconnectMQTT, which makes at least one handshake; whether the call
\* fails or not the sketch stays in loop(): it neither restarts nor sleeps.
\* With a server configured and the broker answering from some time on, a
\* sketch that is in loop() and disconnected before the horizon comes to a
\* state where it is connected, subscribed to "<topic>/control" and has
\* published {"status":"reconnected"}, unless a restart takes it out of
\* loop() first.
C17_RetryForever ==
  /\ [][ /\ (SampleStep /\ pc' # "boot" /\ ~connected) => pc' = "loop_mqtt"
         /\ (pc = "loop_mqtt" /\ pc' # pc)
              => /\ Has(out', "connect")
                 /\ pc' = "loop_pump"
                 /\ ~Has(out', "restart") /\ ~Has(out', "sleep")
                 /\ ~connected' => \A i \in OpsAt(out', "connect") :
                                      out'[i].k = "failed" ]_vars
  /\ (InLoop /\ ~connected /\ cfg.mqtt_server # EMPTY
        /\ now + LOOP_DELAY < MaxLiveTime)
       ~> \/ /\ connected
             /\ ControlTopic \in subscribed
             /\ PubsOf(out, J_reconnected) # {}
          \/ pc = "boot"

\* reconnected in loop() by a call that follows a failed call
C17_Witness ==
  /\ pc = "loop_pump"
  /\ connected
  /\ PubsOf(out, J_reconnected) # {}
  /\ now >= LoopEntryMillis + MAX_RETRY * RETRY_DELAY

----------------------------------------------------------------------------
(* C18 *)

\* C18: whenever the sketch has called esp_deep_sleep_start, the startup
\* power-off has fired in this boot and the configured power pin is LOW;
\* between the boot connect and the sleep no message is dispatched to the
\* callback and nothing writes a pin after the power-off.
C18_SleepsPoweredOff ==
  /\ [](pc = "sleep" => (firstMessageSent /\ gpio[PowerPinNo] = "LOW"))
  /\ [][ (pc \in {"connect", "sleepcheck"} /\ pc' # pc)
           => /\ ~Has(out', "msg")
              /\ \A i \in OpsAt(out', "pin") :
                   /\ i = Len(out')
                   /\ out'[i] = PinEv(PowerPinNo, "LOW") ]_vars

\* asleep after a boot that saved a new power pin and switched it off
C18_Witness ==
  /\ pc = "sleep"
  /\ out = <<SleepEv>>
  /\ shouldSaveConfig
  /\ cfg.power_pin = S_5
  /\ gpio[5] = "LOW"

----------------------------------------------------------------------------
(* C19 *)

\* C19: whenever connectMQTT is about to be called with a server configured,
\* at the end of setup() or from loop(), the port the transport client holds
\* is the port of the in-memory configuration as read back from the portal.
\* (The client holds the server as a pointer to the mqtt_server buffer, which
\* is therefore always the current one.)
C19_ConnectTarget ==
  (pc \in {"connect", "loop_mqtt"} /\ cfg.mqtt_server # EMPTY)
    => clientPort = Atoi(cfg.mqtt_port)

----------------------------------------------------------------------------
(* C20 *)

\* the order of the steps of a boot
PcOrder ==
  {<<"boot", "version">>, <<"version", "load">>, <<"load", "provision">>,
   <<"provision", "save">>, <<"save", "connect">>,
   <<"connect", "sleepcheck">>, <<"connect", "loop_button">>,
   <<"sleepcheck", "sleep">>, <<"sleepcheck", "loop_button">>,
   <<"loop_button", "loop_mqtt">>, <<"loop_button", "loop_pump">>,
   <<"loop_mqtt", "loop_pump">>, <<"loop_pump", "loop_button">>,
   <<"loop_button", "boot">>, <<"loop_pump", "boot">>, <<"sleep", "boot">>}

\* C20: {"status":"system_startup"} is published only by the connect step of
\* setup(), once, and that step is taken once per boot; firstMessageSent is
\* set only there.  In loop() firstMessageSent never changes and deep sleep
\* is never entered; a reconnection writes no pin; and the configured power
\* pin, while HIGH, stays HIGH until "off" is delivered or the device
\* restarts.
C20_StartupOnce ==
  [][ /\ (pc' # pc) => <<pc, pc'>> \in PcOrder
      /\ (out' # out /\ PubsOf(out', J_system_startup) # {})
           => /\ pc = "connect"
              /\ Cardinality(PubsOf(out', J_system_startup)) = 1
      /\ (firstMessageSent' /\ ~firstMessageSent) => pc = "connect"
      /\ (pc = "loop_mqtt" /\ pc' # pc)
           => /\ gpio' = gpio
              /\ ~Has(out', "pin")
      /\ (InLoop /\ pc' # "boot")
           => /\ firstMessageSent' = firstMessageSent
              /\ pc' # "sleep" /\ ~Has(out', "sleep")
              /\ (gpio[PowerPinNo] = "HIGH" /\ gpio'[PowerPinNo] # "HIGH")
                   => (Has(out', "msg") /\ IsOff(out'[1].a)) ]_vars

\* reconnected in loop() in a boot without the startup power-off: the button
\* is not held and the power pin is still HIGH
C20_Witness ==
  /\ pc = "loop_pump"
  /\ connected
  /\ PubsOf(out, J_reconnected) # {}
  /\ ~firstMessageSent
  /\ button = "HIGH"
  /\ gpio[PowerPinNo] = "HIGH"

====
